---- MODULE Spec2Model ----
(***************************************************************************)
(* Model of GUI.py: a Tkinter form with two text variables (folder_path,   *)
(* kernel) and two buttons.  "Browse" stores the chosen folder; "Apply"    *)
(* runs read_image_from_directory over the folder with GausianBlur and     *)
(* the integer read from the kernel field, then shows a success box.       *)
(*                                                                         *)
(* File names are sequences of one-character strings, so that lower(),     *)
(* endswith() and the "processed_" prefix are computed, not assumed.       *)
(* The directory is a function from the names it holds to what cv2.imread  *)
(* finds there: "image" (decodable), "corrupt" (a file imread cannot       *)
(* decode) or "dir" (a subdirectory).                                      *)
(***************************************************************************)
EXTENDS Integers, Sequences, FiniteSets, TLC

VARIABLES
    folder_path,  \* tk.StringVar bound to the folder entry
    kernel,       \* tk.StringVar bound to the kernel entry
    fs,           \* contents of the one existing image folder: name -> status
    pc,           \* "idle" (mainloop waits), "loop" (inside the for loop) or
                  \* "box" (the modal success box is open)
    todo,         \* entries of the os.listdir() result not yet iterated
    listing,      \* the os.listdir() result of the current run
    ksize,        \* int(kernel.get()) of the current run
    jobs,         \* per-run log: one record per entry that entered the try block
    printed,      \* file names printed as "Failed to process ..." in this run
    outcome,      \* how the last Apply click ended
    fsStart,      \* the directory as it was when the current run listed it
    fsInit,       \* the directory as it was at program start
    clean         \* every run so far wrote an output for every entry it listed

vars == <<folder_path, kernel, fs, pc, todo, listing, ksize, jobs, printed,
          outcome, fsStart, fsInit, clean>>

(***************************************************************************)
(* Bounds of the model.                                                    *)
(***************************************************************************)
MaxEntries == 2      \* entries in the folder at program start
MaxFiles == 3        \* a run starts only on a folder of at most this many entries
MaxWriteFaults == 1  \* cv2.imwrite calls of one run that do not write the file

(***************************************************************************)
(* Strings as character sequences.                                         *)
(***************************************************************************)
UpperAlpha == <<"A","B","C","D","E","F","G","H","I","J","K","L","M",
                "N","O","P","Q","R","S","T","U","V","W","X","Y","Z">>
LowerAlpha == <<"a","b","c","d","e","f","g","h","i","j","k","l","m",
                "n","o","p","q","r","s","t","u","v","w","x","y","z">>

LowerChar(c) ==
    IF \E i \in DOMAIN UpperAlpha : UpperAlpha[i] = c
    THEN LowerAlpha[CHOOSE i \in DOMAIN UpperAlpha : UpperAlpha[i] = c]
    ELSE c

\* str.lower()
Lower(s) == [i \in 1..Len(s) |-> LowerChar(s[i])]

\* str.endswith(suffix)
EndsWith(s, suf) ==
    /\ Len(s) >= Len(suf)
    /\ SubSeq(s, Len(s) - Len(suf) + 1, Len(s)) = suf

\* the tuple of suffixes of line 104
Suffixes == { <<".","p","n","g">>, <<".","j","p","g">>,
              <<".","j","p","e","g">>, <<".","b","m","p">> }

\* the test of line 104: filename.lower().endswith(('.png', '.jpg', '.jpeg', '.bmp'))
Eligible(name) == \E suf \in Suffixes : EndsWith(Lower(name), suf)

Prefix == <<"p","r","o","c","e","s","s","e","d","_">>

\* mutant of OutputName: a name that already carries the prefix is not prefixed again
OutputNameOnce(name) ==
    IF Len(name) >= Len(Prefix) /\ SubSeq(name, 1, Len(Prefix)) = Prefix
    THEN name
    ELSE Prefix \o name

\* mutant of OutputName: the output replaces the source file
OutputNameInPlace(name) == name

\* the name written for an entry, line 113: f"processed_{filename}"
OutputName(name) == Prefix \o name

(***************************************************************************)
(* int(kernel.get()): Python's int() of a string strips surrounding        *)
(* whitespace, takes an optional sign and then needs one or more decimal   *)
(* digits; anything else raises ValueError.                                *)
(***************************************************************************)
Digits == <<"0","1","2","3","4","5","6","7","8","9">>
IsDigit(c) == \E i \in DOMAIN Digits : Digits[i] = c
DigitVal(c) == (CHOOSE i \in DOMAIN Digits : Digits[i] = c) - 1
IsSpace(c) == c \in {" ", "\t", "\n"}

RECURSIVE LStrip(_)
LStrip(s) == IF s # <<>> /\ IsSpace(Head(s)) THEN LStrip(Tail(s)) ELSE s

RECURSIVE RStrip(_)
RStrip(s) ==
    IF s # <<>> /\ IsSpace(s[Len(s)]) THEN RStrip(SubSeq(s, 1, Len(s) - 1)) ELSE s

RECURSIVE DigitsValue(_)
DigitsValue(s) ==
    IF s = <<>> THEN 0
    ELSE 10 * DigitsValue(SubSeq(s, 1, Len(s) - 1)) + DigitVal(s[Len(s)])

AllDigits(s) == s # <<>> /\ \A i \in 1..Len(s) : IsDigit(s[i])

\* mutant of PyInt: text that is no integer falls back to the default kernel 5
PyIntLenient(text) ==
    LET t == RStrip(LStrip(text))
        signed == t # <<>> /\ Head(t) \in {"+", "-"}
        body == IF signed THEN Tail(t) ELSE t
    IN  IF AllDigits(body)
        THEN [ok |-> TRUE,
              val |-> IF signed /\ Head(t) = "-" THEN 0 - DigitsValue(body)
                      ELSE DigitsValue(body)]
        ELSE [ok |-> TRUE, val |-> 5]

\* int(text): [ok |-> FALSE] stands for ValueError
PyInt(text) ==
    LET t == RStrip(LStrip(text))
        signed == t # <<>> /\ Head(t) \in {"+", "-"}
        body == IF signed THEN Tail(t) ELSE t
    IN  IF AllDigits(body)
        THEN [ok |-> TRUE,
              val |-> IF signed /\ Head(t) = "-" THEN 0 - DigitsValue(body)
                      ELSE DigitsValue(body)]
        ELSE [ok |-> FALSE, val |-> 0]

(***************************************************************************)
(* The collaborators: the file system and OpenCV.                          *)
(***************************************************************************)
Status == {"image", "corrupt", "dir"}

\* the one folder that exists and is readable; "" is what folder_path holds
\* before any folder was chosen, Missing a path that names no directory
ImageDir == "imgs"
Missing == "missing"
Folders == {"", ImageDir, Missing}

\* mutant of ListDirOk: a path that cannot be listed is taken for a listable folder
ListDirOkAlways(path) == TRUE

\* os.listdir(path) succeeds (line 103); otherwise it raises OSError
ListDirOk(path) == path = ImageDir

Perms(S) ==
    { s \in [1..Cardinality(S) -> S] :
        \A i, j \in 1..Cardinality(S) : i # j => s[i] # s[j] }

\* os.listdir(path): the names of the folder, in arbitrary order
ListDir(fsys) == Perms(DOMAIN fsys)

\* cv2.imread returns an array (lines 30-31); otherwise None and ValueError
Decodable(fsys, name) == name \in DOMAIN fsys /\ fsys[name] = "image"

\* cv2.GaussianBlur((k, k), 0) accepts only a positive odd kernel (line 91)
BlurRaises(k) == k <= 0 \/ k % 2 = 0

\* what cv2.imwrite can do at line 52: write the file and return True ("ok"),
\* return False without writing ("false"), or raise cv2.error ("raise")
WriteResults(fsys, out) ==
    IF out \in DOMAIN fsys /\ fsys[out] = "dir"
    THEN {"false", "raise"}
    ELSE {"ok", "false", "raise"}

\* the folder after cv2.imwrite(out, image) returned True
Written(fsys, out) == (out :> "image") @@ fsys

\* mutant of Remaining: an exception in the try block ends the loop
RemainingAbort(rest, raised) == IF raised THEN <<>> ELSE Tail(rest)

\* mutant of Remaining: an entry whose try block raised is attempted again
RemainingRetry(rest, raised) == IF raised THEN rest ELSE Tail(rest)

\* the entries left for the for statement of line 103 after one iteration;
\* raised tells whether the try block of lines 107-116 ended in the handler
Remaining(rest, raised) == Tail(rest)

(***************************************************************************)
(* Inputs.                                                                 *)
(***************************************************************************)
Notes == <<"n","o","t","e","s",".","t","x","t">>

NameUniverse ==
    { <<"a",".","j","p","g">>,
      <<"b",".","P","N","G">>,
      <<"c",".","b","m","p">>,
      Notes,
      Prefix \o <<"a",".","j","p","g">> }

\* the folders the program may be started on; notes.txt is a text file
InitDirs ==
    { f \in UNION { [S -> Status] :
                      S \in { T \in SUBSET NameUniverse : Cardinality(T) <= MaxEntries } } :
        Notes \in DOMAIN f => f[Notes] = "corrupt" }

KernelInputs ==
    { <<"5">>, <<" ","4"," ">>, <<"0">>, <<"-","3">>,
      <<"a","b","c">>, <<>>, <<"3",".","5">> }

(***************************************************************************)
(* The program.                                                            *)
(***************************************************************************)
Init ==
    /\ folder_path = ""
    /\ kernel = <<"5">>
    /\ fs \in InitDirs
    /\ pc = "idle"
    /\ todo = <<>>
    /\ listing = <<>>
    /\ ksize = 0
    /\ jobs = <<>>
    /\ printed = <<>>
    /\ outcome = "none"
    /\ fsStart = fs
    /\ fsInit = fs
    /\ clean = TRUE

runState == <<fs, pc, todo, listing, ksize, jobs, printed, outcome, fsStart,
              fsInit, clean>>

\* browse_folder(): the dialog returns a folder, or "" when it is cancelled
BrowseFolder ==
    /\ pc = "idle"
    /\ \E folder \in {"", ImageDir} : folder_path' = folder
    /\ UNCHANGED <<kernel, runState>>

\* the user types a path into the entry bound to folder_path
TypeFolder ==
    /\ pc = "idle"
    /\ \E folder \in Folders : folder_path' = folder
    /\ UNCHANGED <<kernel, runState>>

\* the user types into the entry bound to kernel
TypeKernel ==
    /\ pc = "idle"
    /\ \E text \in KernelInputs : kernel' = text
    /\ UNCHANGED <<folder_path, runState>>

\* apply_gaussian_blur(): int(kernel.get()) raises ValueError
ApplyBadKernel ==
    /\ pc = "idle"
    /\ ~PyInt(kernel).ok
    /\ outcome' = "ValueError"
    /\ UNCHANGED <<folder_path, kernel, fs, pc, todo, listing, ksize, jobs,
                   printed, fsStart, fsInit, clean>>

\* apply_gaussian_blur(): os.listdir(folder_path) raises OSError
ApplyBadFolder ==
    /\ pc = "idle"
    /\ PyInt(kernel).ok
    /\ ~ListDirOk(folder_path)
    /\ outcome' = "OSError"
    /\ UNCHANGED <<folder_path, kernel, fs, pc, todo, listing, ksize, jobs,
                   printed, fsStart, fsInit, clean>>

\* apply_gaussian_blur(): the folder is listed and the for loop is entered
ApplyStart ==
    /\ pc = "idle"
    /\ Cardinality(DOMAIN fs) <= MaxFiles
    /\ PyInt(kernel).ok
    /\ ListDirOk(folder_path)
    /\ \E names \in ListDir(fs) :
         /\ listing' = names
         /\ todo' = names
    /\ ksize' = PyInt(kernel).val
    /\ jobs' = <<>>
    /\ printed' = <<>>
    /\ fsStart' = fs
    /\ outcome' = "running"
    /\ pc' = "loop"
    /\ UNCHANGED <<folder_path, kernel, fs, fsInit, clean>>

Job(name, result) ==
    [name |-> name, out |-> OutputName(name), result |-> result,
     readable |-> Decodable(fs, name)]

\* the cv2.imwrite calls logged in js that did not write their file
WriteFaults(js) ==
    Cardinality({ i \in 1..Len(js) : js[i].result \in {"write_false", "encode_error"} })

\* one iteration: the name fails the test of line 104
SkipEntry ==
    /\ pc = "loop"
    /\ todo # <<>>
    /\ ~Eligible(Head(todo))
    /\ todo' = Remaining(todo, FALSE)
    /\ UNCHANGED <<folder_path, kernel, fs, pc, listing, ksize, jobs, printed,
                   outcome, fsStart, fsInit, clean>>

\* one iteration: cv2.imread returns None, __init__ raises, the handler prints
DecodeFails ==
    /\ pc = "loop"
    /\ todo # <<>>
    /\ Eligible(Head(todo))
    /\ ~Decodable(fs, Head(todo))
    /\ jobs' = Append(jobs, Job(Head(todo), "decode_error"))
    /\ printed' = Append(printed, Head(todo))
    /\ todo' = Remaining(todo, TRUE)
    /\ UNCHANGED <<folder_path, kernel, fs, pc, listing, ksize, outcome,
                   fsStart, fsInit, clean>>

\* one iteration: the image is decoded, cv2.GaussianBlur raises, the handler prints
ProcessFails ==
    /\ pc = "loop"
    /\ todo # <<>>
    /\ Eligible(Head(todo))
    /\ Decodable(fs, Head(todo))
    /\ BlurRaises(ksize)
    /\ jobs' = Append(jobs, Job(Head(todo), "process_error"))
    /\ printed' = Append(printed, Head(todo))
    /\ todo' = Remaining(todo, TRUE)
    /\ UNCHANGED <<folder_path, kernel, fs, pc, listing, ksize, outcome,
                   fsStart, fsInit, clean>>

\* one iteration: decoded, blurred, and save_image calls cv2.imwrite
SaveImage ==
    /\ pc = "loop"
    /\ todo # <<>>
    /\ Eligible(Head(todo))
    /\ Decodable(fs, Head(todo))
    /\ ~BlurRaises(ksize)
    /\ \E res \in WriteResults(fs, OutputName(Head(todo))) :
         /\ (res # "ok" /\ "ok" \in WriteResults(fs, OutputName(Head(todo))))
               => WriteFaults(jobs) < MaxWriteFaults
         /\ fs' = IF res = "ok" THEN Written(fs, OutputName(Head(todo))) ELSE fs
         /\ jobs' = Append(jobs, Job(Head(todo),
                        CASE res = "ok" -> "written"
                          [] res = "false" -> "write_false"
                          [] OTHER -> "encode_error"))
         /\ printed' = IF res = "raise" THEN Append(printed, Head(todo)) ELSE printed
         /\ todo' = Remaining(todo, res = "raise")
    /\ UNCHANGED <<folder_path, kernel, pc, listing, ksize, outcome, fsStart,
                   fsInit, clean>>

\* the loop is exhausted: read_image_from_directory returns None and
\* apply_gaussian_blur opens the modal "Success" box
ApplyReturn ==
    /\ pc = "loop"
    /\ todo = <<>>
    /\ outcome' = "Success"
    /\ pc' = "box"
    /\ clean' = (clean /\ Len(jobs) = Len(listing)
                       /\ \A i \in 1..Len(jobs) : jobs[i].result = "written")
    /\ UNCHANGED <<folder_path, kernel, fs, todo, listing, ksize, jobs, printed,
                   fsStart, fsInit>>

\* the user closes the box: showinfo returns and the callback ends
CloseBox ==
    /\ pc = "box"
    /\ pc' = "idle"
    /\ listing' = <<>>
    /\ jobs' = <<>>
    /\ printed' = <<>>
    /\ ksize' = 0
    /\ fsStart' = fs
    /\ UNCHANGED <<folder_path, kernel, fs, todo, outcome, fsInit, clean>>

Next ==
    \/ BrowseFolder
    \/ TypeFolder
    \/ TypeKernel
    \/ ApplyBadKernel
    \/ ApplyBadFolder
    \/ ApplyStart
    \/ SkipEntry
    \/ DecodeFails
    \/ ProcessFails
    \/ SaveImage
    \/ ApplyReturn
    \/ CloseBox

Spec == Init /\ [][Next]_vars

\* a step of the running callback: one loop iteration, or the return from the loop
RunStep == SkipEntry \/ DecodeFails \/ ProcessFails \/ SaveImage \/ ApplyReturn

(***************************************************************************)
(* One click on Apply, taken from any state the form can be in: any text   *)
(* in the two entries and any folder contents.  The callback runs to       *)
(* completion: the interpreter keeps executing it, and nothing else is     *)
(* scheduled while it loops.                                               *)
(***************************************************************************)
RunInit ==
    /\ folder_path \in Folders
    /\ kernel \in KernelInputs
    /\ fs \in InitDirs
    /\ pc = "idle"
    /\ todo = <<>>
    /\ listing = <<>>
    /\ ksize = 0
    /\ jobs = <<>>
    /\ printed = <<>>
    /\ outcome = "none"
    /\ fsStart = fs
    /\ fsInit = fs
    /\ clean = TRUE

\* the click itself
ApplyClick ==
    /\ outcome = "none"
    /\ (ApplyBadKernel \/ ApplyBadFolder \/ ApplyStart)

RunNext == ApplyClick \/ RunStep

RunSpec == RunInit /\ [][RunNext]_vars /\ WF_vars(RunStep)

(***************************************************************************)
(* Vocabulary of the properties, defined without the program's operators.  *)
(***************************************************************************)
Range(seq) == { seq[i] : i \in 1..Len(seq) }

HasDot(s) == \E i \in 1..Len(s) : s[i] = "."
LastDot(s) == CHOOSE i \in 1..Len(s) : s[i] = "." /\ \A j \in (i+1)..Len(s) : s[j] # "."
Extension(s) == IF HasDot(s) THEN SubSeq(s, LastDot(s) + 1, Len(s)) ELSE <<>>

ImageExtensions == { <<"p","n","g">>, <<"j","p","g">>, <<"j","p","e","g">>, <<"b","m","p">> }

\* the extension, compared case-insensitively, is one of png, jpg, jpeg, bmp
HasImageExtension(s) == Lower(Extension(s)) \in ImageExtensions

RECURSIVE Prefixed(_, _)
Prefixed(name, k) == IF k = 0 THEN name ELSE Prefix \o Prefixed(name, k - 1)

\* name, processed_name, ..., up to k prefixes
Chain(name, k) == { Prefixed(name, j) : j \in 0..k }

\* the entries of a listing that carry an image extension, in listing order
ImageEntries(names) == SelectSeq(names, HasImageExtension)

JobNames == [i \in 1..Len(jobs) |-> jobs[i].name]
WrittenJobs == { i \in 1..Len(jobs) : jobs[i].result = "written" }
UnreadableJobs == { i \in 1..Len(jobs) : ~jobs[i].readable }
UnreadableAtStart ==
    { n \in Range(ImageEntries(listing)) : fsStart[n] # "image" }

\* the run's loop is over and the success box is open
RunOver == pc = "box"

\* the kernel was a positive odd integer and every cv2.imwrite wrote its file
OnlyDecodeCanFail == ~(ksize <= 0) /\ ksize % 2 = 1 /\ WriteFaults(jobs) = 0

NonIntegerInputs == { <<"a","b","c">>, <<>>, <<"3",".","5">> }
IntegerInputs == { <<"5">>, <<" ","4"," ">>, <<"0">>, <<"-","3">> }
UnlistableFolders == {"", Missing}

\* the program was started on a folder holding one decodable image file only
StartedOnOneImage ==
    /\ Cardinality(DOMAIN fsInit) = 1
    /\ \A n \in DOMAIN fsInit : HasImageExtension(n) /\ fsInit[n] = "image"

FirstImage == CHOOSE n \in DOMAIN fsInit : TRUE

(***************************************************************************)
(* C1 (as claimed): every failure in the try block is caught, the loop     *)
(* goes on and the call returns normally; with N eligible entries of which *)
(* exactly one is unreadable when the run starts, the run writes N-1       *)
(* outputs and reports exactly that entry as failed.                       *)
(***************************************************************************)
C1_AsClaimed ==
    (RunOver /\ OnlyDecodeCanFail /\ Cardinality(UnreadableAtStart) = 1) =>
        /\ Cardinality(WrittenJobs) = Len(ImageEntries(listing)) - 1
        /\ Len(printed) = 1
        /\ printed[1] \in UnreadableAtStart

(***************************************************************************)
(* C1 (amended): every failure in the try block is caught and printed for  *)
(* its entry, the loop goes on with the next entry and the call returns    *)
(* normally; with N eligible entries of which exactly one is unreadable at *)
(* the moment the loop reaches it, a valid kernel and no failing write,    *)
(* the run writes N-1 outputs and reports exactly that entry as failed.    *)
(***************************************************************************)
C1_FailureIsolated ==
    RunOver =>
        /\ outcome = "Success"
        /\ JobNames = ImageEntries(listing)
        /\ printed = SelectSeq(JobNames,
                LAMBDA n : \E i \in 1..Len(jobs) :
                    /\ jobs[i].name = n
                    /\ jobs[i].result \in {"decode_error", "process_error", "encode_error"})
        /\ (OnlyDecodeCanFail /\ Cardinality(UnreadableJobs) = 1) =>
              /\ Cardinality(WrittenJobs) = Len(ImageEntries(listing)) - 1
              /\ Len(printed) = 1
              /\ \A i \in UnreadableJobs : printed[1] = jobs[i].name

\* a run of two or more entries in which the entry after the failed one was written
C1_Witness ==
    /\ RunOver
    /\ OnlyDecodeCanFail
    /\ Cardinality(UnreadableJobs) = 1
    /\ \E i \in 1..(Len(jobs) - 1) :
         jobs[i].result = "decode_error" /\ jobs[i+1].result = "written"

(***************************************************************************)
(* C2: an entry is attempted if and only if it is a file whose extension   *)
(* is png, jpg, jpeg or bmp in any letter case; every other entry, every   *)
(* subdirectory included, is neither read nor reported as a failure.       *)
(***************************************************************************)
C2_OnlyImageFilesAttempted ==
    /\ \A i \in 1..Len(jobs) :
         /\ HasImageExtension(jobs[i].name)
         /\ fsStart[jobs[i].name] # "dir"
    /\ \A i \in 1..Len(printed) : fsStart[printed[i]] # "dir"
    /\ RunOver =>
         \A n \in Range(listing) :
            (HasImageExtension(n) /\ fsStart[n] # "dir") => n \in Range(JobNames)

(***************************************************************************)
(* C3: a kernel size that is an integer <= 0 or even is rejected before    *)
(* the folder is listed: no run is ever in progress, and no success box    *)
(* open, with such a kernel.                                               *)
(***************************************************************************)
C3_InvalidKernelRejected ==
    (pc # "idle") => (ksize > 0 /\ ksize % 2 = 1)

(***************************************************************************)
(* C4: an Apply click while the kernel field holds text that is no integer *)
(* ends in ValueError: the folder is not listed, nothing is read or        *)
(* written, the folder is unchanged and no success box opens.              *)
(***************************************************************************)
C4_UnparseableKernelFails ==
    [][ (kernel \in NonIntegerInputs /\ kernel' = kernel /\ folder_path' = folder_path)
          => /\ outcome' = "ValueError"
             /\ pc' = "idle"
             /\ fs' = fs
             /\ listing' = <<>> /\ todo' = <<>> /\ jobs' = <<>> /\ printed' = <<>> ]_vars

\* the click happened on a folder that holds a decodable image
C4_Witness ==
    /\ outcome = "ValueError"
    /\ kernel \in NonIntegerInputs
    /\ folder_path = ImageDir
    /\ \E n \in DOMAIN fs : HasImageExtension(n) /\ fs[n] = "image"

(***************************************************************************)
(* C5: an Apply click with an integer kernel while folder_path names no    *)
(* listable directory (the empty path included) ends in the OSError of     *)
(* os.listdir: the loop is not entered, nothing is decoded or written.     *)
(***************************************************************************)
C5_BadFolderFails ==
    [][ (folder_path \in UnlistableFolders /\ kernel \in IntegerInputs
            /\ kernel' = kernel /\ folder_path' = folder_path)
          => /\ outcome' = "OSError"
             /\ pc' = "idle"
             /\ fs' = fs
             /\ listing' = <<>> /\ todo' = <<>> /\ jobs' = <<>> /\ printed' = <<>> ]_vars

C5_Witness ==
    /\ outcome = "OSError"
    /\ folder_path = ""
    /\ kernel = <<"5">>
    /\ pc = "idle"

(***************************************************************************)
(* C6: the caller's summary tells the succeeded entries from the failed    *)
(* ones: the bare success signal is shown only for a run without failures. *)
(***************************************************************************)
C6_SummaryTellsFailures ==
    (RunOver /\ outcome = "Success") => printed = <<>>

(***************************************************************************)
(* C7: an entry whose cv2.imwrite call reported that nothing was written   *)
(* is reported as a failure of the run.                                    *)
(***************************************************************************)
C7_FailedWriteReported ==
    \A i \in 1..Len(jobs) :
        jobs[i].result = "write_false" => jobs[i].name \in Range(printed)

(***************************************************************************)
(* C8: started on a folder holding only the image X, every fully           *)
(* successful run lists X with 0..m prefixes (m the number of successful   *)
(* runs before it), processes all of them and leaves X with 0..m+1         *)
(* prefixes.                                                               *)
(***************************************************************************)
C8_OutputsReprocessed ==
    (RunOver /\ clean /\ StartedOnOneImage) =>
        LET m == Cardinality(DOMAIN fsStart) - 1
        IN  /\ DOMAIN fsStart = Chain(FirstImage, m)
            /\ Range(JobNames) = Chain(FirstImage, m)
            /\ WrittenJobs = 1..(m + 1)
            /\ DOMAIN fs = Chain(FirstImage, m + 1)
            /\ \A n \in DOMAIN fs : fs[n] = "image"

\* the third successful run: three entries processed, four files left
C8_Witness ==
    /\ RunOver /\ clean /\ StartedOnOneImage
    /\ Len(jobs) = 3
    /\ Cardinality(DOMAIN fs) = 4

\* the entries attempted so far are distinct entries of the listing taken at the
\* start of the run; at the end they are its eligible entries, in listing order
C9_AttemptedOnce ==
    /\ DOMAIN fsStart = Range(listing)
    /\ \A i, j \in 1..Len(jobs) : jobs[i].name = jobs[j].name => i = j
    /\ \A i \in 1..Len(jobs) : jobs[i].name \in DOMAIN fsStart
    /\ RunOver => JobNames = ImageEntries(listing)

\* every step of a run takes exactly one entry off the listing, or ends the run
\* once none is left
C9_StepConsumesOne ==
    (pc = "loop") =>
        /\ pc' \in {"loop", "box"}
        /\ pc' = "loop" => (todo # <<>> /\ Len(todo') = Len(todo) - 1)
        /\ pc' = "box" => todo = <<>>
        /\ listing' = listing

(***************************************************************************)
(* C9: a run terminates, and attempts each eligible entry of the listing   *)
(* taken at its start exactly once; a file created during the run is not   *)
(* attempted in that run.  Each step of the run takes one entry off the    *)
(* listing, so the run ends after Len(listing) iterations.                 *)
(***************************************************************************)
C9_OneAttemptAndTermination ==
    /\ [](pc # "idle" => C9_AttemptedOnce)
    /\ [][C9_StepConsumesOne]_vars
    /\ (pc = "loop") ~> (pc = "box")

\* a run that created a file with an eligible name and did not attempt it
C9_Witness ==
    /\ RunOver
    /\ \E i \in WrittenJobs :
         /\ jobs[i].out \notin DOMAIN fsStart
         /\ HasImageExtension(jobs[i].out)
         /\ jobs[i].out \notin Range(JobNames)

(***************************************************************************)
(* C10: the path a job writes differs from the path it read and has an     *)
(* eligible extension; files without an eligible extension are never       *)
(* written, and a file present at the start of a run is overwritten only   *)
(* if it is named processed_X for another eligible entry X of the listing. *)
(***************************************************************************)
C10_WritesOnlyOutputs ==
    /\ \A i \in 1..Len(jobs) :
         /\ jobs[i].out # jobs[i].name
         /\ HasImageExtension(jobs[i].out)
    /\ \A n \in DOMAIN fs :
         ~HasImageExtension(n) => (n \in DOMAIN fsInit /\ fs[n] = fsInit[n])
    /\ \A n \in DOMAIN fs :
         (n \notin DOMAIN fsStart \/ (n \in DOMAIN fsStart /\ fs[n] # fsStart[n])) =>
            \E i \in WrittenJobs : jobs[i].out = n
    /\ \A i \in WrittenJobs :
         jobs[i].out \in DOMAIN fsStart =>
            \E x \in Range(listing) :
               /\ HasImageExtension(x)
               /\ x # jobs[i].out
               /\ jobs[i].out = Prefix \o x

\* a run that overwrote a file of the folder and left notes.txt alone
C10_Witness ==
    /\ RunOver
    /\ Notes \in DOMAIN fs
    /\ \E i \in WrittenJobs : jobs[i].out \in DOMAIN fsStart

====
